---- MODULE Spec2Model ----
(***************************************************************************)
(* Model of two pieces of oxc:                                             *)
(*   - crates/oxc_estree/src/serialize/strings.rs: the JSON string writer  *)
(*     (JsonSafeString, LoneSurrogatesString, str, String, write_str,      *)
(*     write_char_escape and the two escape tables);                       *)
(*   - crates/oxc_linter/src/rules/eslint/default_case.rs: the DefaultCase *)
(*     lint rule (from_configuration and run).                             *)
(* Bytes are the integers 0..255.  Rust indices are 0-based and TLA+       *)
(* sequences 1-based: bytes[i] in the source is s[i + 1] here, and         *)
(* bytes[a..b] is SubSeq(s, a + 1, b).                                     *)
(***************************************************************************)
EXTENDS Integers, Sequences, FiniteSets, TLC

VARIABLES
    entry,        \* which ESTree impl is being called
    s,            \* the input string's bytes (s.as_bytes())
    table,        \* the `table` argument of write_str (a reference to a static)
    buffer,       \* the CodeBuffer's bytes
    start,        \* write_str's `start`
    iter,         \* position of `iter`: the index its next call to next() yields
    index,        \* write_str's `index`: the index yielded at the top of the loop
    pc,           \* position in the call
    calls,        \* the buffer calls made for input bytes, in order
    reads,        \* the indices iter.next() has yielded, in order
    config,       \* the rule's configuration value (JSON)
    rule,         \* the DefaultCase rule built by from_configuration
    node,         \* the AST node handed to run
    comments,     \* the comments of the source, in source order
    diagnostics,  \* the diagnostics ctx has received
    lintPc        \* position in the lint run

strVars == <<entry, s, table, buffer, start, iter, index, pc, calls, reads>>
lintVars == <<config, rule, node, comments, diagnostics, lintPc>>
vars == <<entry, s, table, buffer, start, iter, index, pc, calls, reads,
          config, rule, node, comments, diagnostics, lintPc>>

----------------------------------------------------------------------------
(* Bounds of the model *)

\* Number of tokens (characters or whole 7-byte markers) an input is built from
MaxTokens == 3
\* Length of the inputs drawn from the whole ASCII range
MaxAsciiLen == 1

----------------------------------------------------------------------------
(* strings.rs: constants *)

\* to_bytes('\u{FFFD}')
LOSSY_REPLACEMENT_CHAR_BYTES == <<239, 191, 189>>
LOSSY_REPLACEMENT_CHAR_FIRST_BYTE == LOSSY_REPLACEMENT_CHAR_BYTES[1]

\* enum Escape, each variant by its u8 discriminant (`escape as u8`)
ESC__ == 0
BB == 98
TT == 116
NN == 110
FF == 102
RR == 114
QU == 34
BS == 92
LO == LOSSY_REPLACEMENT_CHAR_FIRST_BYTE
UU == 117

\* b'"', b'\\', and the literals of write_str and write_char_escape
QUOTE == 34
BACKSLASH == 92
HEX_DIGITS == <<48, 49, 50, 51, 52, 53, 54, 55, 56, 57, 97, 98, 99, 100, 101, 102>>
\* "\\u"
BACKSLASH_U == <<92, 117>>
\* b"fffd"
FFFD_HEX == <<102, 102, 102, 100>>

\* create_table(lo): entry b + 1 is the escape of byte b
create_table(lo) ==
    <<
       UU   , UU   , UU   , UU   , UU   , UU   , UU   , UU   , BB   , TT   , NN   , UU   , FF   , RR   , UU   , UU,   \* 0
       UU   , UU   , UU   , UU   , UU   , UU   , UU   , UU   , UU   , UU   , UU   , UU   , UU   , UU   , UU   , UU,   \* 1
       ESC__, ESC__, QU   , ESC__, ESC__, ESC__, ESC__, ESC__, ESC__, ESC__, ESC__, ESC__, ESC__, ESC__, ESC__, ESC__,   \* 2
       ESC__, ESC__, ESC__, ESC__, ESC__, ESC__, ESC__, ESC__, ESC__, ESC__, ESC__, ESC__, ESC__, ESC__, ESC__, ESC__,   \* 3
       ESC__, ESC__, ESC__, ESC__, ESC__, ESC__, ESC__, ESC__, ESC__, ESC__, ESC__, ESC__, ESC__, ESC__, ESC__, ESC__,   \* 4
       ESC__, ESC__, ESC__, ESC__, ESC__, ESC__, ESC__, ESC__, ESC__, ESC__, ESC__, ESC__, BS   , ESC__, ESC__, ESC__,   \* 5
       ESC__, ESC__, ESC__, ESC__, ESC__, ESC__, ESC__, ESC__, ESC__, ESC__, ESC__, ESC__, ESC__, ESC__, ESC__, ESC__,   \* 6
       ESC__, ESC__, ESC__, ESC__, ESC__, ESC__, ESC__, ESC__, ESC__, ESC__, ESC__, ESC__, ESC__, ESC__, ESC__, ESC__,   \* 7
       ESC__, ESC__, ESC__, ESC__, ESC__, ESC__, ESC__, ESC__, ESC__, ESC__, ESC__, ESC__, ESC__, ESC__, ESC__, ESC__,   \* 8
       ESC__, ESC__, ESC__, ESC__, ESC__, ESC__, ESC__, ESC__, ESC__, ESC__, ESC__, ESC__, ESC__, ESC__, ESC__, ESC__,   \* 9
       ESC__, ESC__, ESC__, ESC__, ESC__, ESC__, ESC__, ESC__, ESC__, ESC__, ESC__, ESC__, ESC__, ESC__, ESC__, ESC__,   \* A
       ESC__, ESC__, ESC__, ESC__, ESC__, ESC__, ESC__, ESC__, ESC__, ESC__, ESC__, ESC__, ESC__, ESC__, ESC__, ESC__,   \* B
       ESC__, ESC__, ESC__, ESC__, ESC__, ESC__, ESC__, ESC__, ESC__, ESC__, ESC__, ESC__, ESC__, ESC__, ESC__, ESC__,   \* C
       ESC__, ESC__, ESC__, ESC__, ESC__, ESC__, ESC__, ESC__, ESC__, ESC__, ESC__, ESC__, ESC__, ESC__, ESC__, ESC__,   \* D
       ESC__, ESC__, ESC__, ESC__, ESC__, ESC__, ESC__, ESC__, ESC__, ESC__, ESC__, ESC__, ESC__, ESC__, ESC__, lo,   \* E
       ESC__, ESC__, ESC__, ESC__, ESC__, ESC__, ESC__, ESC__, ESC__, ESC__, ESC__, ESC__, ESC__, ESC__, ESC__, ESC__   \* F
    >>

ESCAPE == create_table(ESC__)
ESCAPE_LONE_SURROGATES == create_table(LO)

\* What a `table` reference points to
Deref(t) == IF t = "ESCAPE_LONE_SURROGATES" THEN ESCAPE_LONE_SURROGATES ELSE ESCAPE

\* write_char_escape without the backslash of the one-letter escapes
write_char_escape_NoBackslash(escape, byte) ==
    IF escape # UU
    THEN <<escape>>
    ELSE <<92, 117, 48, 48,
           <<48, 49, 50, 51, 52, 53, 54, 55, 56, 57, 97, 98, 99, 100, 101, 102>>[(byte \div 16) + 1],
           <<48, 49, 50, 51, 52, 53, 54, 55, 56, 57, 97, 98, 99, 100, 101, 102>>[(byte % 16) + 1]>>

\* write_char_escape with the uppercase digits "0123456789ABCDEF"
write_char_escape_UpperHex(escape, byte) ==
    IF escape # UU
    THEN <<92, escape>>
    ELSE <<92, 117, 48, 48,
           <<48, 49, 50, 51, 52, 53, 54, 55, 56, 57, 65, 66, 67, 68, 69, 70>>[(byte \div 16) + 1],
           <<48, 49, 50, 51, 52, 53, 54, 55, 56, 57, 65, 66, 67, 68, 69, 70>>[(byte % 16) + 1]>>

\* write_char_escape(escape, byte, buffer): the bytes it appends
write_char_escape(escape, byte) ==
    IF escape # UU
    THEN <<BACKSLASH, escape>>
    ELSE <<BACKSLASH, 117, 48, 48,
           HEX_DIGITS[(byte \div 16) + 1], HEX_DIGITS[(byte % 16) + 1]>>

\* No assertion at all
AssertAscii_Skipped(hex) == TRUE

\* The mask 0x0000_0080 instead of 0x8080_8080: only one byte is tested
AssertAscii_OneByte(hex) == (hex[1] \div 128) % 2 = 0

\* u32::from_ne_bytes(hex) & 0x8080_8080 == 0: no byte of hex has its top bit set
AssertAscii(hex) == \A k \in 1..4 : (hex[k] \div 128) % 2 = 0

\* bytes[a..b]
Slice(bytes, a, b) == SubSeq(bytes, a + 1, b)

----------------------------------------------------------------------------
(* Inputs: valid UTF-8 strings *)

\* U+FFFD followed by 4 bytes
Marker(hex) == LOSSY_REPLACEMENT_CHAR_BYTES \o hex

\* The characters and 7-byte groups the inputs are built from: `_`, `"`, `\`,
\* "\n", 0x1F, U+00E9 (2 bytes), U+FF01 (3 bytes, first byte 0xEF), U+1F600
\* (4 bytes), U+FFFE (0xEF 0xBF 0xBE, one byte off U+FFFD), U+FFFD on its own,
\* and U+FFFD followed by "fffd", "d834", "FFFD",
\* "\"___" and "zzzz".
Tokens ==
    { <<95>>, <<34>>, <<92>>, <<10>>, <<31>>, <<195, 169>>, <<239, 188, 129>>,
      <<240, 159, 152, 128>>, <<239, 191, 190>>,
      LOSSY_REPLACEMENT_CHAR_BYTES,
      Marker(FFFD_HEX), Marker(<<100, 56, 51, 52>>), Marker(<<70, 70, 70, 68>>),
      Marker(<<34, 95, 95, 95>>), Marker(<<122, 122, 122, 122>>) }

RECURSIVE Concat(_)
Concat(ts) == IF ts = <<>> THEN <<>> ELSE Head(ts) \o Concat(Tail(ts))

Texts ==
    { Concat(ts) : ts \in UNION { [1..n -> Tokens] : n \in 0..MaxTokens } }
    \cup UNION { [1..n -> 0..127] : n \in 0..MaxAsciiLen }

Entries == {"JsonSafeString", "LoneSurrogatesString", "str", "String"}

----------------------------------------------------------------------------
(* strings.rs: the entry points *)

StrInit ==
    /\ entry \in Entries
    /\ s \in Texts
    /\ table = "none"
    /\ buffer = <<>>
    /\ start = 0
    /\ iter = 0
    /\ index = -1
    /\ pc = "entry"
    /\ calls = <<>>
    /\ reads = <<>>

\* write_str up to its loop: the opening quote, start = 0, iter at the first byte
WriteStrBegin(t) ==
    /\ table' = t
    /\ buffer' = Append(buffer, QUOTE)
    /\ start' = 0
    /\ iter' = 0
    /\ pc' = "scan"
    /\ UNCHANGED <<entry, s, index, calls, reads, lintVars>>

\* impl ESTree for JsonSafeString
SerializeJsonSafeString ==
    /\ pc = "entry"
    /\ entry = "JsonSafeString"
    /\ buffer' = Append(Append(buffer, QUOTE) \o s, QUOTE)
    /\ pc' = "done"
    /\ UNCHANGED <<entry, s, table, start, iter, index, calls, reads, lintVars>>

\* impl ESTree for LoneSurrogatesString
SerializeLoneSurrogatesString ==
    /\ pc = "entry"
    /\ entry = "LoneSurrogatesString"
    /\ WriteStrBegin("ESCAPE_LONE_SURROGATES")

\* impl ESTree for str
SerializeStr ==
    /\ pc = "entry"
    /\ entry = "str"
    /\ WriteStrBegin("ESCAPE")

\* impl ESTree for String: self.as_str().serialize(serializer)
SerializeString ==
    /\ pc = "entry"
    /\ entry = "String"
    /\ entry' = "str"
    /\ UNCHANGED <<s, table, buffer, start, iter, index, pc, calls, reads, lintVars>>

----------------------------------------------------------------------------
(* strings.rs: write_str, one loop iteration per action *)

\* The byte and escape of the iteration that starts at iter
CurByte == s[iter + 1]
CurEscape == Deref(table)[CurByte + 1]
IsLoneSurrogateCase ==
    Deref(table) = ESCAPE_LONE_SURROGATES /\ CurEscape = LO

\* The indices i..j-1 that are in the string: what repeated iter.next() yields
Yielded(i, j) == [k \in 1..((IF j < Len(s) THEN j ELSE Len(s)) - i) |-> i + k - 1]

\* `if escape == Escape::__ { continue; }`
ScanContinue ==
    /\ pc = "scan"
    /\ iter < Len(s)
    /\ CurEscape = ESC__
    /\ index' = iter
    /\ iter' = iter + 1
    /\ reads' = Append(reads, iter)
    /\ UNCHANGED <<entry, s, table, buffer, start, pc, calls, lintVars>>

\* PrintMarker without the test for "fffd": U+FFFD itself comes out as \ufffd
PrintMarker_NoFffd(hex) ==
    IF (\A k \in 1..4 : (hex[k] \div 128) % 2 = 0)
    THEN [ok |-> TRUE, out |-> <<92, 117>> \o hex]
    ELSE [ok |-> FALSE, out |-> <<92, 117>>]

\* The if/else on `hex` of the lone-surrogate branch: what it prints, and
\* whether its assert_eq! passes
PrintMarker(hex) ==
    IF hex = FFFD_HEX
    THEN [ok |-> TRUE, out |-> LOSSY_REPLACEMENT_CHAR_BYTES]
    ELSE IF AssertAscii(hex)
    THEN [ok |-> TRUE, out |-> BACKSLASH_U \o hex]
    ELSE [ok |-> FALSE, out |-> BACKSLASH_U]

\* The four hex bytes asked of an iterator that must have a byte left after them
HexYielded_OneMore(len, idx) == idx + 7 < len

\* The four iter.next() for hex1..hex4 all yield a byte: the string holds the
\* indices index + 3 .. index + 6
HexYielded(len, idx) == idx + 6 < len

\* The marker taken to be 8 bytes long
StartAfterMarker_Eight(idx) == idx + 8

\* `start = index + 7`
StartAfterMarker(idx) == idx + 7

\* `[next1, next2] == [LOSSY_REPLACEMENT_CHAR_BYTES[1], LOSSY_REPLACEMENT_CHAR_BYTES[2]]`
IsLossyReplacement(next1, next2) ==
    <<next1, next2>> = <<LOSSY_REPLACEMENT_CHAR_BYTES[2], LOSSY_REPLACEMENT_CHAR_BYTES[3]>>

\* The else branch with `start = index + 3`: the character and the run
\* pending before it are dropped
OtherCharacter_SkipsChar(st, idx) ==
    [pc |-> "scan", start |-> idx + 3, out |-> <<>>, calls |-> <<>>, iter |-> idx + 3]

\* The else branch, "Some other unicode character starting with 0xEF. Just
\* continue the loop.": nothing is printed, start stays, and the iterator is
\* past next1 and next2
OtherCharacter(st, idx) ==
    [pc |-> "scan", start |-> st, out |-> <<>>, calls |-> <<>>, iter |-> idx + 3]

\* The lone-surrogate branch for the byte at idx: the resulting position,
\* start, iterator, appended bytes and buffer calls
LoneSurrogate(bytes, st, idx) ==
    LET len == Len(bytes)
        stay == [pc |-> "scan", start |-> st, out |-> <<>>, calls |-> <<>>]
    IN  IF idx + 2 >= len
        THEN \* one of the two unwrap()s of next1, next2 finds None
             [stay EXCEPT !.pc = "panic_unwrap"] @@ [iter |-> len]
        ELSE IF IsLossyReplacement(bytes[idx + 2], bytes[idx + 3])
        THEN IF ~HexYielded(len, idx)
             THEN \* one of the unwrap()s of hex1..hex4 finds None
                  [stay EXCEPT !.pc = "panic_unwrap"] @@ [iter |-> len]
             ELSE LET hex == Slice(bytes, idx + 3, idx + 7)
                      printed == PrintMarker(hex)
                  IN
                  IF st > idx
                  THEN \* bytes[start..index] with start > index
                       [stay EXCEPT !.pc = "panic_slice"] @@ [iter |-> idx + 7]
                  ELSE IF printed.ok
                  THEN [pc |-> "scan", start |-> StartAfterMarker(idx), iter |-> idx + 7,
                        out |-> Slice(bytes, st, idx) \o printed.out,
                        calls |-> << <<"copy", st, idx>>, <<"marker", idx, idx + 7>> >>]
                  ELSE \* assert_eq! fails after "\\u" was printed
                       [pc |-> "panic_assert", start |-> st, iter |-> idx + 7,
                        out |-> Slice(bytes, st, idx) \o printed.out,
                        calls |-> << <<"copy", st, idx>> >>]
        ELSE OtherCharacter(st, idx)

\* `if table == &ESCAPE_LONE_SURROGATES && escape == Escape::LO { ... continue; }`
ScanLoneSurrogate ==
    /\ pc = "scan"
    /\ iter < Len(s)
    /\ CurEscape # ESC__
    /\ IsLoneSurrogateCase
    /\ LET r == LoneSurrogate(s, start, iter) IN
        /\ index' = iter
        /\ iter' = r.iter
        /\ reads' = reads \o Yielded(iter, r.iter)
        /\ start' = r.start
        /\ buffer' = buffer \o r.out
        /\ calls' = calls \o r.calls
        /\ pc' = r.pc
    /\ UNCHANGED <<entry, s, table, lintVars>>

\* EscapeByte with `start = index`: the escaped byte stays in the pending run
EscapeByte_StartAtIndex(bytes, st, idx, escape) ==
    [out |-> (IF st < idx THEN SubSeq(bytes, st + 1, idx) ELSE <<>>)
             \o (IF escape # 117
                 THEN <<92, escape>>
                 ELSE <<92, 117, 48, 48,
                        <<48, 49, 50, 51, 52, 53, 54, 55, 56, 57, 97, 98, 99, 100, 101, 102>>
                            [(bytes[idx + 1] \div 16) + 1],
                        <<48, 49, 50, 51, 52, 53, 54, 55, 56, 57, 97, 98, 99, 100, 101, 102>>
                            [(bytes[idx + 1] % 16) + 1]>>),
     calls |-> (IF st < idx THEN << <<"copy", st, idx>> >> ELSE <<>>)
               \o << <<"escape", idx, idx + 1>> >>,
     start |-> idx]

\* The rest of the loop body: flush the pending run, write the escape
EscapeByte(bytes, st, idx, escape) ==
    [out |-> (IF st < idx THEN Slice(bytes, st, idx) ELSE <<>>)
             \o write_char_escape(escape, bytes[idx + 1]),
     calls |-> (IF st < idx THEN << <<"copy", st, idx>> >> ELSE <<>>)
               \o << <<"escape", idx, idx + 1>> >>,
     start |-> idx + 1]

ScanEscape ==
    /\ pc = "scan"
    /\ iter < Len(s)
    /\ CurEscape # ESC__
    /\ ~IsLoneSurrogateCase
    /\ LET r == EscapeByte(s, start, iter, CurEscape) IN
        /\ buffer' = buffer \o r.out
        /\ calls' = calls \o r.calls
        /\ start' = r.start
    /\ index' = iter
    /\ iter' = iter + 1
    /\ reads' = Append(reads, iter)
    /\ UNCHANGED <<entry, s, table, pc, lintVars>>

\* FinalFlush with `start + 1 < bytes.len()`: a last run of one byte is lost
FinalFlush_OffByOne(bytes, st) ==
    [out |-> IF st + 1 < Len(bytes) THEN SubSeq(bytes, st + 1, Len(bytes)) ELSE <<>>,
     calls |-> IF st + 1 < Len(bytes) THEN << <<"copy", st, Len(bytes)>> >> ELSE <<>>]

\* After the loop: the trailing run and the closing quote
FinalFlush(bytes, st) ==
    [out |-> IF st < Len(bytes) THEN Slice(bytes, st, Len(bytes)) ELSE <<>>,
     calls |-> IF st < Len(bytes) THEN << <<"copy", st, Len(bytes)>> >> ELSE <<>>]

WriteStrEnd ==
    /\ pc = "scan"
    /\ iter >= Len(s)
    /\ LET r == FinalFlush(s, start) IN
        /\ buffer' = Append(buffer \o r.out, QUOTE)
        /\ calls' = calls \o r.calls
    /\ pc' = "done"
    /\ UNCHANGED <<entry, s, table, start, iter, index, reads, lintVars>>

StrNext ==
    \/ SerializeJsonSafeString
    \/ SerializeLoneSurrogatesString
    \/ SerializeStr
    \/ SerializeString
    \/ ScanContinue
    \/ ScanLoneSurrogate
    \/ ScanEscape
    \/ WriteStrEnd


----------------------------------------------------------------------------
(* default_case.rs: strings, the regex of commentPattern, the source *)

\* "no default"
NO_DEFAULT == <<110, 111, 32, 100, 101, 102, 97, 117, 108, 116>>

\* char::is_whitespace on the ASCII range, as str::trim uses it
IsWhitespace(c) == c \in {9, 10, 11, 12, 13, 32}

\* str::trim
RECURSIVE TrimStart(_)
TrimStart(str) ==
    IF str # <<>> /\ IsWhitespace(Head(str)) THEN TrimStart(Tail(str)) ELSE str

RECURSIVE TrimEnd(_)
TrimEnd(str) ==
    IF str # <<>> /\ IsWhitespace(str[Len(str)])
    THEN TrimEnd(SubSeq(str, 1, Len(str) - 1))
    ELSE str

trim(str) == TrimEnd(TrimStart(str))

\* u8::to_ascii_lowercase
to_ascii_lowercase(c) == IF c >= 65 /\ c <= 90 THEN c + 32 ELSE c

\* str::eq_ignore_ascii_case
eq_ignore_ascii_case(a, b) ==
    /\ Len(a) = Len(b)
    /\ \A k \in 1..Len(a) : to_ascii_lowercase(a[k]) = to_ascii_lowercase(b[k])

\* RegexBuilder::new(val).case_insensitive(true).build().ok(), for patterns of
\* the form [^]literal: None when the pattern does not compile (here: holds an
\* unclosed `(`), else the regex as its anchor and its literal
RegexBuild(val) ==
    IF \E k \in 1..Len(val) : val[k] = 40
    THEN [some |-> FALSE]
    ELSE IF val # <<>> /\ Head(val) = 94
    THEN [some |-> TRUE, anchored |-> TRUE, literal |-> Tail(val)]
    ELSE [some |-> TRUE, anchored |-> FALSE, literal |-> val]

\* Regex::is_match: the literal occurs in raw (at its start when anchored),
\* letters compared without case
is_match(re, raw) ==
    \E p \in 0..(IF re.anchored THEN 0 ELSE Len(raw)) :
        /\ p + Len(re.literal) <= Len(raw)
        /\ eq_ignore_ascii_case(SubSeq(raw, p + 1, p + Len(re.literal)), re.literal)

\* The configuration values: none, an object without commentPattern, a
\* commentPattern that is not a string, "^skip default", "default", and "(",
\* which is no regex
Configs ==
    { [given |-> FALSE],
      [given |-> TRUE, commentPattern |-> [kind |-> "absent"]],
      [given |-> TRUE, commentPattern |-> [kind |-> "number"]],
      [given |-> TRUE, commentPattern |-> [kind |-> "string", str |-> <<94, 115, 107, 105, 112, 32, 100, 101, 102, 97, 117, 108, 116>>]],
      [given |-> TRUE, commentPattern |-> [kind |-> "string", str |-> <<100, 101, 102, 97, 117, 108, 116>>]],
      [given |-> TRUE, commentPattern |-> [kind |-> "string", str |-> <<40>>]] }

\* Comment contents as written between the comment's delimiters: " no default",
\* "No Default ", " nope", " SKIP default case", " no default yet"
Contents ==
    { <<32, 110, 111, 32, 100, 101, 102, 97, 117, 108, 116>>,
      <<78, 111, 32, 68, 101, 102, 97, 117, 108, 116, 32>>,
      <<32, 110, 111, 112, 101>>,
      <<32, 83, 75, 73, 80, 32, 100, 101, 102, 97, 117, 108, 116, 32, 99, 97, 115, 101>>,
      <<32, 110, 111, 32, 100, 101, 102, 97, 117, 108, 116, 32, 121, 101, 116>> }

\* What a switch statement's braces hold, in source order
Items == {[item |-> "case"], [item |-> "default"]}
         \cup { [item |-> "comment", content |-> c] : c \in Contents }

\* Number of items between the braces of the switch
MaxItems == 3

\* The switch statement with these items, at offsets 1..n between the switch's
\* start 0 and its closing brace; its span ends at n + 2
SwitchOf(items) ==
    [kind |-> "SwitchStatement",
     span |-> [start |-> 0, end |-> Len(items) + 2],
     cases |-> LET RECURSIVE Cases(_)
                   Cases(k) ==
                       IF k > Len(items) THEN <<>>
                       ELSE IF items[k].item = "comment" THEN Cases(k + 1)
                       ELSE << [test |-> IF items[k].item = "case" THEN "Some" ELSE "None",
                                span |-> [start |-> k]] >> \o Cases(k + 1)
               IN  Cases(1)]

\* The comments of the source, in source order: those between the braces and
\* those that follow the switch (at offsets n + 2, n + 3, ...)
CommentsOf(items, after) ==
    LET RECURSIVE Inside(_)
        Inside(k) ==
            IF k > Len(items) THEN <<>>
            ELSE IF items[k].item # "comment" THEN Inside(k + 1)
            ELSE << [span |-> [start |-> k], content |-> items[k].content] >>
                 \o Inside(k + 1)
    IN  Inside(1)
        \o [k \in 1..Len(after) |->
               [span |-> [start |-> Len(items) + 1 + k], content |-> after[k]]]

\* What may follow the switch: nothing, " no default", " nope"
Afters == { <<>>, << <<32, 110, 111, 32, 100, 101, 102, 97, 117, 108, 116>> >>, << <<32, 110, 111, 112, 101>> >> }

----------------------------------------------------------------------------
(* default_case.rs: the rule *)

LintInit ==
    /\ config \in Configs
    /\ \E items \in UNION { [1..n -> Items] : n \in 0..MaxItems }, after \in Afters :
        /\ node \in {SwitchOf(items), [kind |-> "Other"]}
        /\ comments = CommentsOf(items, after)
    /\ rule = [built |-> FALSE]
    /\ diagnostics = <<>>
    /\ lintPc = "configure"

\* DefaultCase::from_configuration
from_configuration(value) ==
    IF value.given /\ value.commentPattern.kind = "string"
    THEN LET re == RegexBuild(value.commentPattern.str) IN
         IF re.some
         THEN [built |-> TRUE, comment_pattern |-> re]
         ELSE [built |-> TRUE, comment_pattern |-> [some |-> FALSE]]
    ELSE [built |-> TRUE, comment_pattern |-> [some |-> FALSE]]

FromConfiguration ==
    /\ lintPc = "configure"
    /\ rule' = from_configuration(config)
    /\ lintPc' = "run"
    /\ UNCHANGED <<config, node, comments, diagnostics, strVars>>

\* ctx.semantic().comments_range(lo..hi): the comments that start in lo..hi
comments_range(lo, hi) ==
    SelectSeq(comments, LAMBDA c : lo <= c.span.start /\ c.span.start < hi)

\* The closure given to is_some_and
MatchesComment(r, comment) ==
    LET raw == trim(comment.content) IN
    IF r.comment_pattern.some
    THEN is_match(r.comment_pattern, raw)
    ELSE eq_ignore_ascii_case(raw, NO_DEFAULT)

\* has_default_comment with any() in place of next_back(): any comment after
\* the last case counts
has_default_comment_Any(r, switch) ==
    \E k \in 1..Len(comments) :
        /\ switch.cases[Len(switch.cases)].span.start <= comments[k].span.start
        /\ comments[k].span.start < switch.span.end
        /\ MatchesComment(r, comments[k])

\* has_default_comment for a switch with at least one case
has_default_comment(r, switch) ==
    LET last_case == switch.cases[Len(switch.cases)]
        range == comments_range(last_case.span.start, switch.span.end)
    IN  range # <<>> /\ MatchesComment(r, range[Len(range)])

\* `if cases.is_empty() || cases.iter().any(|case| case.test.is_none()) { return; }`
ReturnsEarly(switch) ==
    \/ switch.cases = <<>>
    \/ \E k \in 1..Len(switch.cases) : switch.cases[k].test = "None"

\* DefaultCase::run on a node that is no switch statement
RunOther ==
    /\ lintPc = "run"
    /\ node.kind # "SwitchStatement"
    /\ lintPc' = "done"
    /\ UNCHANGED <<config, rule, node, comments, diagnostics, strVars>>

\* DefaultCase::run: the early return
RunReturn ==
    /\ lintPc = "run"
    /\ node.kind = "SwitchStatement"
    /\ ReturnsEarly(node)
    /\ lintPc' = "done"
    /\ UNCHANGED <<config, rule, node, comments, diagnostics, strVars>>

\* DefaultCase::run: the last comment matches
RunPass ==
    /\ lintPc = "run"
    /\ node.kind = "SwitchStatement"
    /\ ~ReturnsEarly(node)
    /\ has_default_comment(rule, node)
    /\ lintPc' = "done"
    /\ UNCHANGED <<config, rule, node, comments, diagnostics, strVars>>

\* DefaultCase::run: ctx.diagnostic(default_case_diagnostic(switch.span))
RunReport ==
    /\ lintPc = "run"
    /\ node.kind = "SwitchStatement"
    /\ ~ReturnsEarly(node)
    /\ ~has_default_comment(rule, node)
    /\ diagnostics' = Append(diagnostics, [span |-> node.span])
    /\ lintPc' = "done"
    /\ UNCHANGED <<config, rule, node, comments, strVars>>

LintNext ==
    \/ FromConfiguration
    \/ RunOther
    \/ RunReturn
    \/ RunPass
    \/ RunReport

----------------------------------------------------------------------------
(* The specifications *)

\* The lint rule's variables while the string writer runs, and the reverse
LintIdle ==
    /\ config = [given |-> FALSE]
    /\ rule = [built |-> FALSE]
    /\ node = [kind |-> "Other"]
    /\ comments = <<>>
    /\ diagnostics = <<>>
    /\ lintPc = "idle"

StrIdle ==
    /\ entry = "none"
    /\ s = <<>>
    /\ table = "none"
    /\ buffer = <<>>
    /\ start = 0
    /\ iter = 0
    /\ index = -1
    /\ pc = "idle"
    /\ calls = <<>>
    /\ reads = <<>>

Init == StrInit /\ LintIdle
Next == StrNext
Spec == Init /\ [][Next]_vars

\* write_str runs to its end or to a panic: nothing suspends it
FairSpec == Init /\ [][Next]_vars /\ WF_vars(Next)

LintSpecInit == LintInit /\ StrIdle
LintSpecNext == LintNext
LintSpec == LintSpecInit /\ [][LintSpecNext]_vars

----------------------------------------------------------------------------
(* Vocabulary of the properties *)

Panicked == pc \in {"panic_unwrap", "panic_assert", "panic_slice"}
StandardMode == table = "ESCAPE"
LoneSurrogateMode == table = "ESCAPE_LONE_SURROGATES"

\* The lowercase hex digit of n, 0 <= n < 16
HexLower(n) == IF n < 10 THEN 48 + n ELSE 87 + n

IsHexDigit(b) == (b >= 48 /\ b <= 57) \/ (b >= 97 /\ b <= 102) \/ (b >= 65 /\ b <= 70)

\* The image of one byte in standard mode
Image(b) ==
    CASE b = 8  -> <<92, 98>>
      [] b = 9  -> <<92, 116>>
      [] b = 10 -> <<92, 110>>
      [] b = 12 -> <<92, 102>>
      [] b = 13 -> <<92, 114>>
      [] b = 34 -> <<92, 34>>
      [] b = 92 -> <<92, 92>>
      [] b \in (0..31) \ {8, 9, 10, 12, 13} ->
            <<92, 117, 48, 48, HexLower(b \div 16), HexLower(b % 16)>>
      [] OTHER -> <<b>>

\* For each of the 256 byte values, what the ESCAPE table and write_char_escape
\* make of the byte is its image
EscapeTableImages ==
    \A b \in 0..255 :
        (IF ESCAPE[b + 1] = ESC__ THEN <<b>> ELSE write_char_escape(ESCAPE[b + 1], b))
            = Image(b)

RECURSIVE Images(_)
Images(bytes) == IF bytes = <<>> THEN <<>> ELSE Image(Head(bytes)) \o Images(Tail(bytes))

Quoted(bytes) == <<34>> \o bytes \o <<34>>

\* U+FFFD starts at 0-based offset i of bytes
FFFDAt(bytes, i) ==
    /\ i + 3 <= Len(bytes)
    /\ bytes[i + 1] = 239 /\ bytes[i + 2] = 191 /\ bytes[i + 3] = 189

\* The input contract of lone-surrogate-aware mode: each U+FFFD is followed by
\* 4 ASCII hex digits
WellFormed(bytes) ==
    \A i \in 0..(Len(bytes) - 1) :
        FFFDAt(bytes, i) =>
            /\ i + 7 <= Len(bytes)
            /\ \A k \in 4..7 : IsHexDigit(bytes[i + k])

\* The translation of a well-formed input, marker by marker
RECURSIVE Translated(_)
Translated(bytes) ==
    IF bytes = <<>> THEN <<>>
    ELSE IF FFFDAt(bytes, 0) /\ Len(bytes) >= 7
    THEN (IF SubSeq(bytes, 4, 7) = <<102, 102, 102, 100>>
          THEN <<239, 191, 189>>
          ELSE <<92, 117>> \o SubSeq(bytes, 4, 7))
         \o Translated(SubSeq(bytes, 8, Len(bytes)))
    ELSE Image(Head(bytes)) \o Translated(Tail(bytes))

----------------------------------------------------------------------------
C2_MarkersTranslated ==
    (LoneSurrogateMode /\ WellFormed(s) /\ pc = "done")
        => buffer = Quoted(Translated(s))

\* A finished write of two adjacent markers, the first at the start of the
\* string, followed by more text
C2_Witness ==
    /\ LoneSurrogateMode /\ pc = "done"
    /\ WellFormed(s)
    /\ FFFDAt(s, 0) /\ FFFDAt(s, 7) /\ Len(s) > 14
    /\ SubSeq(s, 4, 7) # SubSeq(s, 11, 14)

\* The positions of the quotes of out that no backslash escapes, reading out
\* from position i: a backslash is an escape introducer and takes the next byte
RECURSIVE UnescapedQuotes(_, _)
UnescapedQuotes(out, i) ==
    IF i > Len(out) THEN {}
    ELSE IF out[i] = 92 THEN UnescapedQuotes(out, i + 2)
    ELSE IF out[i] = 34 THEN {i} \cup UnescapedQuotes(out, i + 1)
    ELSE UnescapedQuotes(out, i + 1)

QuotesOnlyAtEnds(out) ==
    /\ Len(out) >= 2
    /\ UnescapedQuotes(out, 1) = {1, Len(out)}

MalformedMarkerAt(bytes, i) ==
    /\ FFFDAt(bytes, i)
    /\ i + 7 <= Len(bytes)
    /\ \E k \in 4..7 : ~IsHexDigit(bytes[i + k])

\* U+FFFD at offset i is followed by 4 bytes, not all of them ASCII
NonAsciiMarkerAt(bytes, i) ==
    /\ FFFDAt(bytes, i)
    /\ i + 7 <= Len(bytes)
    /\ \E k \in 4..7 : bytes[i + k] >= 128

\* The write has not completed and cannot: it is in its loop with input left,
\* or it stopped at the failed assert_eq!
AbortsWithAssertion ==
    /\ pc \in {"scan", "panic_assert"}
    /\ pc = "scan" => iter < Len(s)

NoEscapeNeeded(bytes) ==
    \A k \in 1..Len(bytes) : bytes[k] >= 32 /\ bytes[k] # 34 /\ bytes[k] # 92

\* No 7-byte marker (U+FFFD and 4 hex digits) in the string
NoMarker(bytes) ==
    \A i \in 0..(Len(bytes) - 1) :
        ~(/\ FFFDAt(bytes, i)
          /\ i + 7 <= Len(bytes)
          /\ \A k \in 4..7 : IsHexDigit(bytes[i + k]))

NoFFFD(bytes) == \A i \in 0..(Len(bytes) - 1) : ~FFFDAt(bytes, i)

\* Whichever entry point runs, it does not panic and what it ends with is the
\* string between quotes
PlainOutput == ~Panicked /\ (pc = "done" => buffer = Quoted(s))

(* C5 as stated: for a string with no byte that needs an escape and no       *)
(* 7-byte marker, JsonSafeString, LoneSurrogatesString and str/String all    *)
(* produce the string between quotes.                                        *)
C5_Original == (NoEscapeNeeded(s) /\ NoMarker(s)) => PlainOutput

(* C5, amended: for a string with no byte that needs an escape and no U+FFFD *)
(* at all (whether or not 4 hex digits follow it), JsonSafeString,           *)
(* LoneSurrogatesString and str/String all produce the string between        *)
(* quotes, its bytes unchanged.                                              *)
C5_PlainStrings == (NoEscapeNeeded(s) /\ NoFFFD(s)) => PlainOutput

\* LoneSurrogatesString has finished a string of several characters, one of
\* them a 3-byte character that starts with 0xEF
C5_Witness ==
    /\ pc = "done" /\ entry = "LoneSurrogatesString"
    /\ NoEscapeNeeded(s) /\ NoFFFD(s)
    /\ Len(s) >= 5
    /\ \E k \in 1..Len(s) : s[k] = 239

\* The value of a hex digit, -1 for any other byte
HexValue(b) ==
    IF b >= 48 /\ b <= 57 THEN b - 48
    ELSE IF b >= 97 /\ b <= 102 THEN b - 87
    ELSE IF b >= 65 /\ b <= 70 THEN b - 55
    ELSE -1

\* A JSON string decoder on what is between the quotes; <<-1>> marks text
\* that is no JSON string
RECURSIVE JsonDecodeBody(_)
JsonDecodeBody(body) ==
    IF body = <<>> THEN <<>>
    ELSE IF Head(body) = 92
    THEN IF Len(body) < 2 THEN <<-1>>
         ELSE IF body[2] = 117
         THEN IF /\ Len(body) >= 6
                 /\ body[3] = 48 /\ body[4] = 48
                 /\ HexValue(body[5]) >= 0 /\ HexValue(body[6]) >= 0
              THEN <<16 * HexValue(body[5]) + HexValue(body[6])>>
                   \o JsonDecodeBody(SubSeq(body, 7, Len(body)))
              ELSE <<-1>>
         ELSE IF body[2] \in {98, 116, 110, 102, 114, 34, 92}
         THEN << CASE body[2] = 98 -> 8
                   [] body[2] = 116 -> 9
                   [] body[2] = 110 -> 10
                   [] body[2] = 102 -> 12
                   [] body[2] = 114 -> 13
                   [] OTHER -> body[2] >>
              \o JsonDecodeBody(SubSeq(body, 3, Len(body)))
         ELSE <<-1>>
    ELSE IF Head(body) = 34 \/ Head(body) < 32 THEN <<-1>>
    ELSE <<Head(body)>> \o JsonDecodeBody(Tail(body))

JsonDecode(out) ==
    IF Len(out) >= 2 /\ out[1] = 34 /\ out[Len(out)] = 34
    THEN JsonDecodeBody(SubSeq(out, 2, Len(out) - 1))
    ELSE <<-1>>

(* C6: in standard mode, decoding the finished output as a JSON string       *)
(* (quotes stripped, \b \t \n \f \r \" \\ and \u00XX mapped back, other      *)
(* bytes copied) gives the input's bytes; two inputs with the same output    *)
(* would decode to the same bytes, so they are the same input.               *)
C6_RoundTrip ==
    (StandardMode /\ pc = "done") => JsonDecode(buffer) = s

\* A finished standard-mode write of a text with a backslash, a quote and a
\* control byte written as \u00XX
C6_Witness ==
    /\ StandardMode /\ pc = "done"
    /\ \E i, j, k \in 1..Len(s) :
        s[i] = 92 /\ s[j] = 34 /\ s[k] = 31

\* The input contract of the scanning entry points: any text in standard mode,
\* a well-formed text in lone-surrogate-aware mode
InputContract ==
    \/ entry \in {"str", "String"}
    \/ entry = "LoneSurrogatesString" /\ WellFormed(s)

(* C7: under the input contract (any valid UTF-8 text in standard mode; in   *)
(* lone-surrogate-aware mode a text in which each U+FFFD is followed by 4    *)
(* ASCII hex digits, a marker at the very start or end included) write_str   *)
(* never panics (no failed unwrap, assertion or slice), it terminates, and   *)
(* the step that ends it appends the closing quote.                          *)
C7_Totality ==
    /\ [](InputContract => ~Panicked)
    /\ [][(InputContract /\ pc # "done" /\ pc' = "done")
            => (Len(buffer') > Len(buffer) /\ buffer'[Len(buffer')] = 34)]_vars
    /\ (InputContract ~> (pc = "done"))

\* A finished lone-surrogate write of a text that starts with a marker and
\* ends with a marker
C7_Witness ==
    /\ pc = "done" /\ entry = "LoneSurrogatesString" /\ WellFormed(s)
    /\ Len(s) > 14
    /\ FFFDAt(s, 0) /\ FFFDAt(s, Len(s) - 7)

\* str::is_char_boundary: offset i of bytes is the start or the end of the
\* string, or the byte there is no continuation byte (10xxxxxx)
IsCharBoundary(bytes, i) ==
    \/ i = 0
    \/ i = Len(bytes)
    \/ i > 0 /\ i < Len(bytes) /\ (bytes[i + 1] < 128 \/ bytes[i + 1] >= 192)

(* C9: every range bytes[a..b] that write_str hands to a bulk verbatim       *)
(* append (before an escape, before a marker, and the trailing run) starts   *)
(* and ends on a character boundary of the input, in either mode; this holds *)
(* for every append made, so for those of the writes that complete.          *)
C9_CopiesOnBoundaries ==
    \A k \in 1..Len(calls) :
        calls[k][1] = "copy" =>
            /\ calls[k][2] <= calls[k][3]
            /\ IsCharBoundary(s, calls[k][2])
            /\ IsCharBoundary(s, calls[k][3])

\* A finished lone-surrogate write that copied a run from inside the string,
\* a multi-byte character in it
C9_Witness ==
    /\ pc = "done" /\ LoneSurrogateMode
    /\ \E k \in 1..Len(calls) :
        /\ calls[k][1] = "copy"
        /\ calls[k][2] > 0 /\ calls[k][3] < Len(s)
        /\ \E j \in (calls[k][2] + 1)..calls[k][3] : s[j] >= 128

\* The calls cover the offsets 0..len-1 once each, left to right: each piece
\* starts where the one before it ended, an escape is one byte, a marker seven
CoversOnce(cs, len) ==
    /\ cs = <<>> => len = 0
    /\ cs # <<>> => cs[1][2] = 0 /\ cs[Len(cs)][3] = len
    /\ \A k \in 1..Len(cs) :
        /\ cs[k][2] <= cs[k][3]
        /\ cs[k][1] = "escape" => cs[k][3] = cs[k][2] + 1
        /\ cs[k][1] = "marker" => cs[k][3] = cs[k][2] + 7
        /\ k < Len(cs) => cs[k + 1][2] = cs[k][3]

(* C10: the scan cursor of write_str.  Each loop iteration takes an index    *)
(* greater than the one before, and start never decreases; at the top of     *)
(* each iteration and at the final flush 0 <= start <= index <= len, index   *)
(* being len at the final flush; the iterator yields every index once, in    *)
(* order; and when the write completes every offset of the input is covered  *)
(* once by a copied run, a one-byte escape or a 7-byte marker.               *)
C10_ScanCursor ==
    /\ [][(pc = "scan" /\ iter < Len(s)) => (index' = iter /\ index' > index)]_vars
    /\ [][start' >= start]_vars
    /\ [](pc = "scan" => (0 <= start /\ start <= iter /\ iter <= Len(s)))
    /\ [](reads = [k \in 1..iter |-> k - 1])
    /\ []((pc = "done" /\ entry # "JsonSafeString")
            => (iter = Len(s) /\ CoversOnce(calls, Len(s))))

\* A finished write that copied a run, wrote an escape and translated a marker
C10_Witness ==
    /\ pc = "done" /\ WellFormed(s)
    /\ \E i, j, k \in 1..Len(calls) :
        /\ calls[i][1] = "copy" /\ calls[i][2] < calls[i][3]
        /\ calls[j][1] = "escape"
        /\ calls[k][1] = "marker"

\* The comments that lie between the start of the switch's last case and the
\* end of the switch, as indices into the source's comments
CommentsAfterLastCase ==
    LET lastStart == node.cases[Len(node.cases)].span.start IN
    { k \in 1..Len(comments) :
        comments[k].span.start >= lastStart /\ comments[k].span.start < node.span.end }

\* The trimmed content is the rule's pattern: the configured commentPattern,
\* found without regard to case, or, with none, "no default" in any case
MatchesPattern(content) ==
    LET raw == trim(content) IN
    IF rule.comment_pattern.some
    THEN is_match(rule.comment_pattern, raw)
    ELSE [k \in 1..Len(raw) |-> to_ascii_lowercase(raw[k])] = NO_DEFAULT

\* The conditions under which the rule is to report the node
ShouldReport ==
    /\ node.kind = "SwitchStatement"
    /\ Len(node.cases) >= 1
    /\ \A k \in 1..Len(node.cases) : node.cases[k].test = "Some"
    /\ \/ CommentsAfterLastCase = {}
       \/ LET last == CHOOSE k \in CommentsAfterLastCase :
                         \A j \in CommentsAfterLastCase :
                             comments[j].span.start <= comments[k].span.start
          IN  ~MatchesPattern(comments[last].content)

(* C8: DefaultCase reports a switch statement exactly when it has at least   *)
(* one case, every case has a test (none is a default case), and the last    *)
(* comment between the start of the last case and the end of the switch is   *)
(* absent or its trimmed content does not match the pattern (the configured  *)
(* commentPattern without regard to case, else "no default" in any case).    *)
(* Only that last comment counts: a matching comment before the last case or *)
(* before a later comment that does not match leaves the report in place.    *)
C8_ReportsExactlyWhen ==
    lintPc = "done" =>
        diagnostics = IF ShouldReport THEN << [span |-> node.span] >> ELSE <<>>

\* A reported switch whose last case is followed by a matching comment and
\* then by a comment that does not match
C8_Witness ==
    /\ lintPc = "done"
    /\ diagnostics # <<>>
    /\ \E j, k \in CommentsAfterLastCase :
        /\ comments[j].span.start < comments[k].span.start
        /\ MatchesPattern(comments[j].content)
        /\ ~MatchesPattern(comments[k].content)

\* A 3-byte character that starts with 0xEF and is not U+FFFD is at offset i
OtherEFAt(bytes, i) ==
    /\ i + 3 <= Len(bytes)
    /\ bytes[i + 1] = 239
    /\ <<bytes[i + 2], bytes[i + 3]>> # <<191, 189>>

(* C11: in lone-surrogate-aware mode a 3-byte character that starts with     *)
(* 0xEF and is not U+FFFD stays in the pending run: the iteration that meets *)
(* it prints nothing, leaves start where it was and moves the iterator past  *)
(* the two bytes it looked at; in a completed write the three bytes lie in   *)
(* one copied run, and a text without U+FFFD comes out as in standard mode,  *)
(* the bytes after such a character escaped as usual.                        *)
C11_OtherEFCharacter ==
    /\ [][(LoneSurrogateMode /\ pc = "scan" /\ OtherEFAt(s, iter))
            => /\ pc' = "scan"
               /\ start' = start
               /\ buffer' = buffer
               /\ calls' = calls
               /\ iter' = iter + 3
               /\ reads' = reads \o <<iter, iter + 1, iter + 2>>]_vars
    /\ []((LoneSurrogateMode /\ pc = "done")
            => \A i \in 0..(Len(s) - 1) :
                   OtherEFAt(s, i) =>
                       \E k \in 1..Len(calls) :
                           /\ calls[k][1] = "copy"
                           /\ calls[k][2] <= i /\ i + 3 <= calls[k][3])
    /\ []((LoneSurrogateMode /\ pc = "done" /\ NoFFFD(s))
            => buffer = Quoted(Images(s)))

\* A finished lone-surrogate write of a text in which U+FFFE follows other
\* text and is followed by a quote
C11_Witness ==
    /\ LoneSurrogateMode /\ pc = "done"
    /\ \E i \in 1..(Len(s) - 1) :
        /\ OtherEFAt(s, i)
        /\ s[i + 2] = 191
        /\ i + 3 < Len(s)
        /\ s[i + 4] = 34

====
